---- MODULE Spec2Model ----
(***************************************************************************)
(* The structural match engine of ts-pattern (src/internals/helpers.ts):   *)
(* isObject, isMatcher, isOptionalPattern, matchPattern, getSelectionKeys  *)
(* and flatMap, over a bounded universe of JavaScript values.              *)
(*                                                                         *)
(* A JavaScript value is a record tagged by t.  Patterns are JavaScript    *)
(* values too: a literal, an array (tuple pattern), a plain object (keyed  *)
(* pattern) or an object carrying the symbols.matcher property (matcher).  *)
(* The select callback and the matcher's match method are observed through *)
(* a log of events, each stamped with the path of the pattern node whose   *)
(* evaluation caused it.                                                   *)
(***************************************************************************)
EXTENDS Naturals, Sequences, FiniteSets

VARIABLES rootPattern, input, calls, selectionKeys,
          status, frames, last, invocations, walkLog

\* the state of one matchPattern call followed invocation by invocation
walkVars == <<status, frames, last, invocations, walkLog>>

vars == <<rootPattern, input, calls, selectionKeys,
          status, frames, last, invocations, walkLog>>

RECURSIVE matchPatternAt(_, _, _)
RECURSIVE tupleEvery(_, _, _, _)
RECURSIVE tupleEvery_eager(_, _, _, _)
RECURSIVE keyedEvery(_, _, _, _, _)
RECURSIVE getSelectionKeys(_)

---------------------------------------------------------------------------
(* Bounds of the input universe.                                           *)

\* longest tuple pattern and longest array value
MaxLen == 2

\* number of matchPattern invocations made on one (pattern, value)
MaxCalls == 2

\* cap on the recursive invocations of one matchPattern call
MaxInvocations == 12

\* property names used by keyed patterns and object values
Keys == {"x", "y"}

\* the property names of array indices
IndexNames == <<"0", "1", "2", "3">>

---------------------------------------------------------------------------
(* JavaScript values.                                                      *)

Undefined == [t |-> "undefined"]
Null == [t |-> "null"]
Num(nan, neg, mag) == [t |-> "number", nan |-> nan, neg |-> neg, mag |-> mag]
NaN == Num(TRUE, FALSE, 0)
PosZero == Num(FALSE, FALSE, 0)
NegZero == Num(FALSE, TRUE, 0)
Five == Num(FALSE, FALSE, 5)
Str(s) == [t |-> "string", s |-> s]
Arr(es) == [t |-> "array", elems |-> es]
Prop(k, v) == [k |-> k, v |-> v]
Obj(fs) == [t |-> "object", fields |-> fs]

Absent == [some |-> FALSE, names |-> <<>>]
Names(ns) == [some |-> TRUE, names |-> ns]

\* An object whose symbols.matcher property returns a MatcherProtocol:
\* matcherType, match (it accepts the values whose tag is in accepts and
\* binds each name of selects to the value; leaky: the result carries the
\* selections also when matched is false), getSelectionKeys (absent, or
\* returning gsk.names); fields are the object's own enumerable properties.
Matcher(mt, acc, sel, leaky, gsk, fs) ==
    [t |-> "matcher", matcherType |-> mt, accepts |-> acc, selects |-> sel,
     leaky |-> leaky, gsk |-> gsk, fields |-> fs]

Tags == {"undefined", "null", "number", "string", "array", "object", "matcher"}

\* ToBoolean
Truthy(v) ==
    CASE v.t = "undefined" -> FALSE
      [] v.t = "null" -> FALSE
      [] v.t = "number" -> ~v.nan /\ v.mag # 0
      [] v.t = "string" -> v.s # ""
      [] OTHER -> TRUE

typeof(v) ==
    CASE v.t = "undefined" -> "undefined"
      [] v.t = "number" -> "number"
      [] v.t = "string" -> "string"
      [] OTHER -> "object"

isArray(v) == v.t = "array"

\* Object.is (SameValue) on the primitives; an object is never the same
\* value as a primitive.
ObjectIs_strictEquals(a, b) ==
    /\ a.t = b.t
    /\ CASE a.t = "number" ->
              /\ ~a.nan /\ ~b.nan
              /\ a.mag = b.mag
              /\ (a.mag = 0 \/ a.neg = b.neg)
         [] a.t = "string" -> a.s = b.s
         [] a.t \in {"undefined", "null"} -> TRUE
         [] OTHER -> FALSE

ObjectIs(a, b) ==
    /\ a.t = b.t
    /\ CASE a.t = "number" ->
              \/ a.nan /\ b.nan
              \/ ~a.nan /\ ~b.nan /\ a.mag = b.mag /\ a.neg = b.neg
         [] a.t = "string" -> a.s = b.s
         [] a.t \in {"undefined", "null"} -> TRUE
         [] OTHER -> FALSE

isObject_typeofOnly(v) == typeof(v) = "object"

isObject(v) == Truthy(v) /\ typeof(v) = "object"

isMatcher(x) == Truthy(x) /\ x.t = "matcher"

isOptionalPattern(x) == isMatcher(x) /\ x.matcherType = "optional"

---------------------------------------------------------------------------
(* Property access on objects.                                             *)

IndexKey(i) == IF i < Len(IndexNames) THEN IndexNames[i + 1] ELSE "n"

\* own enumerable string keys, in property order (Object.keys)
ObjectKeys_reversed(o) ==
    [i \in 1..Len(o.fields) |-> o.fields[Len(o.fields) + 1 - i].k]

ObjectKeys(o) == [i \in 1..Len(o.fields) |-> o.fields[i].k]

\* Object.values
ObjectValues(o) == [i \in 1..Len(o.fields) |-> o.fields[i].v]

\* `k in v` throws a TypeError unless v is an object
InThrows(v) == v.t \notin {"array", "object", "matcher"}

\* k in v, for an object v.  Own properties only: the property names drawn
\* (Keys) are not names of Object.prototype or Array.prototype, which `in`
\* would find on every object as well.
In(k, v) ==
    IF v.t = "array"
    THEN k = "length" \/ \E i \in 1..Len(v.elems) : k = IndexKey(i - 1)
    ELSE \E i \in 1..Len(v.fields) : v.fields[i].k = k

\* v[k], for a v that is neither null nor undefined
Get(v, k) ==
    CASE v.t = "array" ->
            IF k = "length" THEN Num(FALSE, FALSE, Len(v.elems))
            ELSE IF \E i \in 1..Len(v.elems) : k = IndexKey(i - 1)
            THEN v.elems[CHOOSE i \in 1..Len(v.elems) : k = IndexKey(i - 1)]
            ELSE Undefined
      [] v.t \in {"object", "matcher"} ->
            IF \E i \in 1..Len(v.fields) : v.fields[i].k = k
            THEN v.fields[CHOOSE i \in 1..Len(v.fields) : v.fields[i].k = k].v
            ELSE Undefined
      [] OTHER -> Undefined

---------------------------------------------------------------------------
(* The matcher protocol and the events a call produces.                    *)

\* matcher.match(value): a MatchResult {matched, selections?}
Match(m, v) ==
    LET matched == v.t \in m.accepts
    IN  [matched |-> matched,
         selections |->
            IF m.selects.some /\ (matched \/ m.leaky)
            THEN [some |-> TRUE,
                  entries |-> [i \in 1..Len(m.selects.names) |->
                                  Prop(m.selects.names[i], v)]]
            ELSE [some |-> FALSE, entries |-> <<>>]]

MatchEv(path, v) == [ev |-> "match", at |-> path, key |-> "", val |-> v]
SelectEv(path, k, v) == [ev |-> "select", at |-> path, key |-> k, val |-> v]
KeysEv == [ev |-> "getSelectionKeys", at |-> <<>>, key |-> "", val |-> Undefined]

Returned(b) == [matched |-> b, threw |-> FALSE, log |-> <<>>]
Thrown == [matched |-> FALSE, threw |-> TRUE, log |-> <<>>]

---------------------------------------------------------------------------
(* matchPattern.                                                           *)

\* if (matched && selections)
shouldSelect_anyResult(matched, selections) == selections.some

shouldSelect(matched, selections) == matched /\ selections.some

\* the matcher branch
matchMatcher(pattern, value, path) ==
    LET r == Match(pattern, value)
    IN  [matched |-> r.matched,
         threw |-> FALSE,
         log |-> <<MatchEv(path, value)>> \o
                 IF shouldSelect(r.matched, r.selections)
                 THEN [i \in 1..Len(r.selections.entries) |->
                          SelectEv(path, r.selections.entries[i].k,
                                   r.selections.entries[i].v)]
                 ELSE <<>>]

\* pattern.length === value.length
sameLength_atLeast(pattern, value) == Len(pattern.elems) <= Len(value.elems)

sameLength(pattern, value) == Len(pattern.elems) = Len(value.elems)

\* an every() that evaluates all the sub-patterns before combining the results
tupleEvery_eager(pattern, value, i, path) ==
    IF i > Len(pattern.elems) THEN Returned(TRUE)
    ELSE LET r == matchPatternAt(pattern.elems[i], Get(value, IndexKey(i - 1)),
                                 Append(path, IndexKey(i - 1)))
             rest == tupleEvery_eager(pattern, value, i + 1, path)
         IN  IF r.threw THEN r
             ELSE [matched |-> r.matched /\ rest.matched,
                   threw |-> rest.threw,
                   log |-> r.log \o rest.log]

\* pattern.every((subPattern, i) => matchPattern(subPattern, value[i], select)),
\* from the i-th element on
tupleEvery(pattern, value, i, path) ==
    IF i > Len(pattern.elems) THEN Returned(TRUE)
    ELSE LET r == matchPatternAt(pattern.elems[i], Get(value, IndexKey(i - 1)),
                                 Append(path, IndexKey(i - 1)))
         IN  IF r.threw \/ ~r.matched THEN r
             ELSE LET rest == tupleEvery(pattern, value, i + 1, path)
                  IN  [rest EXCEPT !.log = r.log \o @]

\* the tuple branch
matchTuple(pattern, value, path) ==
    IF ~isArray(value) THEN Returned(FALSE)
    ELSE IF sameLength(pattern, value) THEN tupleEvery(pattern, value, 1, path)
    ELSE Returned(FALSE)

\* k in value || isOptionalPattern(subPattern)
keyAdmitted_presentOnly(k, v, subPattern) == In(k, v)

keyAdmitted(k, v, subPattern) == In(k, v) \/ isOptionalPattern(subPattern)

\* Object.keys(pattern).every((k) => ...), from the i-th key on
keyedEvery(pattern, value, ks, i, path) ==
    IF i > Len(ks) THEN Returned(TRUE)
    ELSE IF InThrows(value) THEN Thrown
    ELSE LET subPattern == Get(pattern, ks[i])
         IN  IF ~keyAdmitted(ks[i], value, subPattern) THEN Returned(FALSE)
             ELSE LET r == matchPatternAt(subPattern, Get(value, ks[i]),
                                          Append(path, ks[i]))
                  IN  IF r.threw \/ ~r.matched THEN r
                      ELSE LET rest == keyedEvery(pattern, value, ks, i + 1, path)
                           IN  [rest EXCEPT !.log = r.log \o @]

\* a keyed branch that rejects a value with a key the pattern lacks
matchKeyed_exactShape(pattern, value, path) ==
    IF \E k \in Keys : In(k, value) /\ ~In(k, pattern)
    THEN Returned(FALSE)
    ELSE keyedEvery(pattern, value, ObjectKeys(pattern), 1, path)

\* a keyed branch that rejects an array value
matchKeyed_rejectArrays(pattern, value, path) ==
    IF isArray(value) THEN Returned(FALSE)
    ELSE keyedEvery(pattern, value, ObjectKeys(pattern), 1, path)

\* the keyed branch; Object.keys throws on null and undefined
matchKeyed(pattern, value, path) ==
    IF pattern.t \in {"null", "undefined"} THEN Thrown
    ELSE keyedEvery(pattern, value, ObjectKeys(pattern), 1, path)

matchPatternAt(pattern, value, path) ==
    IF isObject(pattern)
    THEN IF isMatcher(pattern) THEN matchMatcher(pattern, value, path)
         ELSE IF ~isObject(value) THEN Returned(FALSE)
         ELSE IF isArray(pattern) THEN matchTuple(pattern, value, path)
         ELSE matchKeyed(pattern, value, path)
    ELSE Returned(ObjectIs(value, pattern))

\* an engine that takes back the select calls of a failing match
matchPattern_rollback(p, v) ==
    LET r == matchPatternAt(p, v, <<>>)
    IN  IF r.matched THEN r
        ELSE [r EXCEPT !.log = SelectSeq(@, LAMBDA e : e.ev # "select")]

matchPattern(p, v) == matchPatternAt(p, v, <<>>)

---------------------------------------------------------------------------
(* getSelectionKeys.                                                       *)

\* a flatMap that keeps the first occurrence of a name only
flatMap_unique(xs) ==
    LET acc[i \in 0..Len(xs)] ==
            IF i = 0 THEN [keys |-> <<>>, log |-> <<>>]
            ELSE [keys |-> acc[i - 1].keys \o
                           SelectSeq(getSelectionKeys(xs[i]).keys,
                                     LAMBDA n : \A j \in 1..Len(acc[i - 1].keys) :
                                                   acc[i - 1].keys[j] # n),
                  log |-> acc[i - 1].log \o getSelectionKeys(xs[i]).log]
    IN  acc[Len(xs)]

\* flatMap(xs, getSelectionKeys): xs.reduce((acc, p) => acc.concat(f(p)), []);
\* both call sites pass getSelectionKeys for f
flatMap(xs) ==
    LET acc[i \in 0..Len(xs)] ==
            IF i = 0 THEN [keys |-> <<>>, log |-> <<>>]
            ELSE [keys |-> acc[i - 1].keys \o getSelectionKeys(xs[i]).keys,
                  log |-> acc[i - 1].log \o getSelectionKeys(xs[i]).log]
    IN  acc[Len(xs)]

getSelectionKeys(p) ==
    IF isObject(p)
    THEN IF isMatcher(p)
         THEN IF p.gsk.some THEN [keys |-> p.gsk.names, log |-> <<KeysEv>>]
              ELSE [keys |-> <<>>, log |-> <<>>]
         ELSE IF isArray(p) THEN flatMap(p.elems)
         ELSE flatMap(ObjectValues(p))
    ELSE [keys |-> <<>>, log |-> <<>>]

---------------------------------------------------------------------------
(* The bounded universe of patterns and values.                            *)

SeqsUpTo(S, n) == UNION {[1..k -> S] : k \in 0..n}

\* sequences of distinct property names: the property orders of an object
KeySeqs ==
    {ks \in SeqsUpTo(Keys, MaxLen) :
        \A i, j \in 1..Len(ks) : i # j => ks[i] # ks[j]}

Arrays(S) == {Arr(es) : es \in SeqsUpTo(S, MaxLen)}

Objects(S) ==
    UNION {{Obj([i \in 1..Len(ks) |-> Prop(ks[i], f[i])]) :
                f \in [1..Len(ks) -> S]} : ks \in KeySeqs}

Primitives == {Undefined, Null, NaN, PosZero, NegZero, Five, Str("s")}

ElemValues ==
    {Undefined, Five, Str("s"), Arr(<<Five>>), Obj(<<Prop("x", Five)>>)}

Values == Primitives \cup Arrays(ElemValues) \cup Objects(ElemValues)

\* the matcher objects the protocol admits, over the bounded parameters
MatcherParams ==
    {q \in [mt : {"optional", "default"},
            acc : {{"number"}, {"number", "undefined"}, Tags},
            sel : {Absent, Names(<<"a">>), Names(<<"a", "b">>)},
            leaky : BOOLEAN,
            gsk : {Absent, Names(<<>>), Names(<<"a">>), Names(<<"a", "b">>)},
            fs : {<<>>, <<Prop("x", Five)>>}] :
        /\ q.leaky => q.sel.some
        /\ q.gsk.some => q.gsk.names = q.sel.names}

Matchers ==
    {Matcher(q.mt, q.acc, q.sel, q.leaky, q.gsk, q.fs) : q \in MatcherParams}

\* select("a"): matches every value and binds it to a
selectA == Matcher("select", Tags, Names(<<"a">>), FALSE, Names(<<"a">>), <<>>)

\* a guard on numbers that binds the value to b; its result carries the
\* selections also when it does not match
numberB ==
    Matcher("default", {"number"}, Names(<<"b">>), TRUE, Names(<<"b">>),
            <<Prop("x", Five)>>)

\* optional(number), as the pattern library builds it
optionalNumber ==
    Matcher("optional", {"number", "undefined"}, Absent, FALSE, Absent, <<>>)

ElemPatterns ==
    {Undefined, Five, selectA, numberB, optionalNumber,
     Arr(<<selectA>>), Obj(<<Prop("x", numberB)>>)}

\* keyed patterns over the property names of an array
ArrayKeyPatterns ==
    {Obj(<<Prop("length", numberB)>>), Obj(<<Prop("length", PosZero)>>),
     Obj(<<Prop("0", selectA)>>)}

Patterns ==
    Primitives \cup Matchers \cup {selectA, numberB, optionalNumber}
        \cup Arrays(ElemPatterns) \cup Objects(ElemPatterns)
        \cup ArrayKeyPatterns

---------------------------------------------------------------------------
(* The state machine: a caller holding one pattern and one input value     *)
(* calls getSelectionKeys(pattern) and matchPattern(pattern, input, select)*)
(* with a select that records its calls.                                   *)

NotCalled == [called |-> FALSE, keys |-> <<>>, log |-> <<>>]

\* no call is being followed
WalkIdle ==
    /\ status = "idle"
    /\ frames = <<>>
    /\ last = "none"
    /\ invocations = 0
    /\ walkLog = <<>>

Init ==
    /\ rootPattern \in Patterns
    /\ input \in Values
    /\ calls = <<>>
    /\ selectionKeys = NotCalled
    /\ WalkIdle

\* an engine whose select calls accumulate in a store that outlives the call
CallMatchPattern_sharedLog ==
    /\ Len(calls) < MaxCalls
    /\ calls' = Append(calls,
                    [matchPattern(rootPattern, input) EXCEPT
                        !.log = (IF calls = <<>> THEN <<>>
                                 ELSE calls[Len(calls)].log) \o @])
    /\ UNCHANGED <<rootPattern, input, selectionKeys>>
    /\ UNCHANGED walkVars

CallMatchPattern ==
    /\ Len(calls) < MaxCalls
    /\ calls' = Append(calls, matchPattern(rootPattern, input))
    /\ UNCHANGED <<rootPattern, input, selectionKeys>>
    /\ UNCHANGED walkVars

CallGetSelectionKeys ==
    /\ ~selectionKeys.called
    /\ LET r == getSelectionKeys(rootPattern)
       IN  selectionKeys' = [called |-> TRUE, keys |-> r.keys, log |-> r.log]
    /\ UNCHANGED <<rootPattern, input, calls>>
    /\ UNCHANGED walkVars

Next == CallMatchPattern

Spec == Init /\ [][Next]_vars

\* getSelectionKeys takes the pattern alone
InitKeys ==
    /\ rootPattern \in Patterns
    /\ input = Undefined
    /\ calls = <<>>
    /\ selectionKeys = NotCalled
    /\ WalkIdle

NextKeys == CallGetSelectionKeys

SpecKeys == InitKeys /\ [][NextKeys]_vars

---------------------------------------------------------------------------
(* One matchPattern call, one recursive invocation at a time.  A frame is  *)
(* an invocation whose every() is iterating: i is the index of the next    *)
(* sub-pattern.  Values may be cyclic: a property of an object in the heap *)
(* may refer to an object of the heap.                                     *)

Ref(a) == [t |-> "ref", a |-> a]

\* o.x === o;  a[0] === a;  p.x === q and q[0] === p
Heap ==
    << Obj(<<Prop("x", Ref(1)), Prop("y", Five)>>),
       Arr(<<Ref(2)>>),
       Obj(<<Prop("x", Ref(4))>>),
       Arr(<<Ref(3)>>) >>

Deref(v) == IF v.t = "ref" THEN Heap[v.a] ELSE v

CyclicValues == {Heap[a] : a \in 1..Len(Heap)}

Frame(p, v, path, i) == [pattern |-> p, value |-> v, path |-> path, i |-> i]

\* the number of sub-patterns every() iterates over
childCount(p) == IF isArray(p) THEN Len(p.elems) ELSE Len(ObjectKeys(p))

\* the index i, or the key k, of the i-th sub-pattern
childKey(p, i) == IF isArray(p) THEN IndexKey(i - 1) ELSE ObjectKeys(p)[i]

\* a recursion that passes the pattern itself on
subPatternOf_same(p, k) == p

\* subPattern: the callback's argument, or pattern[k]
subPatternOf(p, k) == Get(p, k)

\* value[i], value[k]
childValue(v, k) == Deref(Get(v, k))

\* an invocation up to its every(): it returns true or false, or iterates
Enter(p, v, path) ==
    IF isObject(p)
    THEN IF isMatcher(p)
         THEN LET r == matchMatcher(p, v, path)
              IN  [kind |-> IF r.matched THEN "true" ELSE "false", log |-> r.log]
         ELSE IF ~isObject(v) THEN [kind |-> "false", log |-> <<>>]
         ELSE IF isArray(p)
         THEN IF isArray(v) /\ sameLength(p, v)
              THEN [kind |-> "iterate", log |-> <<>>]
              ELSE [kind |-> "false", log |-> <<>>]
         ELSE [kind |-> "iterate", log |-> <<>>]
    ELSE [kind |-> IF ObjectIs(v, p) THEN "true" ELSE "false", log |-> <<>>]

\* the invocation of matchPattern(p, v) from the frames below
Invoke(below, p, v, path) ==
    LET e == Enter(p, v, path)
    IN  /\ invocations' = invocations + 1
        /\ walkLog' = walkLog \o e.log
        /\ IF e.kind = "iterate"
           THEN /\ frames' = Append(below, Frame(p, v, path, 1))
                /\ last' = "none"
                /\ status' = "running"
           ELSE /\ frames' = below
                /\ last' = e.kind
                /\ status' = IF below = <<>> THEN "done" ELSE "running"

\* the top frame returns b to the frame below, or to the caller
Return(b) ==
    /\ frames' = SubSeq(frames, 1, Len(frames) - 1)
    /\ last' = b
    /\ status' = IF Len(frames) = 1 THEN "done" ELSE "running"
    /\ UNCHANGED <<invocations, walkLog>>

\* the caller calls matchPattern(pattern, value, select)
WalkStart ==
    /\ status = "idle"
    /\ Invoke(<<>>, rootPattern, Deref(input), <<>>)
    /\ UNCHANGED <<rootPattern, input, calls, selectionKeys>>

\* every() calls its callback on the next sub-pattern
WalkDescend ==
    /\ status = "running"
    /\ last = "none"
    /\ invocations < MaxInvocations
    /\ LET f == frames[Len(frames)]
       IN  /\ f.i <= childCount(f.pattern)
           /\ LET k == childKey(f.pattern, f.i)
                  subPattern == subPatternOf(f.pattern, k)
              IN  IF isArray(f.pattern) \/ keyAdmitted(k, f.value, subPattern)
                  THEN Invoke(frames, subPattern, childValue(f.value, k),
                              Append(f.path, k))
                  ELSE Return("false")
    /\ UNCHANGED <<rootPattern, input, calls, selectionKeys>>

\* every() takes the callback's result: on to the next index, or false
WalkResume ==
    /\ status = "running"
    /\ last \in {"true", "false"}
    /\ IF last = "true"
       THEN /\ frames' = [frames EXCEPT ![Len(frames)].i = @ + 1]
            /\ last' = "none"
            /\ UNCHANGED <<status, invocations, walkLog>>
       ELSE Return("false")
    /\ UNCHANGED <<rootPattern, input, calls, selectionKeys>>

\* every() has passed the last sub-pattern
WalkReturn ==
    /\ status = "running"
    /\ last = "none"
    /\ frames[Len(frames)].i > childCount(frames[Len(frames)].pattern)
    /\ Return("true")
    /\ UNCHANGED <<rootPattern, input, calls, selectionKeys>>

\* the values a followed call is made on
WalkValues == Primitives \cup ElemValues \cup CyclicValues

InitWalk ==
    /\ rootPattern \in Patterns
    /\ input \in WalkValues
    /\ calls = <<>>
    /\ selectionKeys = NotCalled
    /\ WalkIdle

NextWalk == WalkStart \/ WalkDescend \/ WalkResume \/ WalkReturn

\* the call is synchronous: a step that can be taken is taken
SpecWalk == InitWalk /\ [][NextWalk]_vars /\ WF_vars(NextWalk)

---------------------------------------------------------------------------
(* Claims.                                                                 *)

\* the index of the latest matchPattern call, if any
LastCall == IF calls = <<>> THEN {} ELSE {Len(calls)}

IsLiteral(p) == p.t \in {"undefined", "null", "number", "string"}

\* C1: for a bare literal pattern matchPattern returns true iff the value is
\* the same value as the pattern (NaN matches NaN, 0 and -0 do not match
\* each other), and select is never called.
C1_LiteralSameValue ==
    \A c \in LastCall :
        IsLiteral(rootPattern) =>
            /\ ~calls[c].threw
            /\ calls[c].matched = (input = rootPattern)
            /\ (rootPattern = NaN /\ input = NaN => calls[c].matched)
            /\ (rootPattern = PosZero /\ input = NegZero => ~calls[c].matched)
            /\ (rootPattern = NegZero /\ input = PosZero => ~calls[c].matched)
            /\ calls[c].log = <<>>

C1_Witness ==
    /\ rootPattern = NaN
    /\ input = NaN
    /\ calls # <<>>
    /\ calls[1].matched

\* C2: for a tuple pattern matchPattern returns true iff the value is an
\* array of exactly the pattern's length and every sub-pattern matches the
\* element at its index; any other value fails.
C2_TupleExactLength ==
    \A c \in LastCall :
        rootPattern.t = "array" =>
            /\ ~calls[c].threw
            /\ calls[c].matched =
                  /\ input.t = "array"
                  /\ Len(input.elems) = Len(rootPattern.elems)
                  /\ \A i \in 1..Len(rootPattern.elems) :
                        matchPattern(rootPattern.elems[i], input.elems[i]).matched

C2_Witness ==
    /\ rootPattern.t = "array"
    /\ input.t = "array"
    /\ Len(rootPattern.elems) = 1
    /\ Len(input.elems) = 2
    /\ matchPattern(rootPattern.elems[1], input.elems[1]).matched
    /\ calls # <<>>
    /\ ~calls[1].matched

\* the value's own property names
OwnKeys(v) ==
    IF v.t = "array"
    THEN {"length"} \cup {IndexKey(i - 1) : i \in 1..Len(v.elems)}
    ELSE {v.fields[i].k : i \in 1..Len(v.fields)}

\* C3: for a keyed pattern and a composite value matchPattern returns true
\* iff every key of the pattern exists in the value or holds an optional
\* matcher, and the sub-pattern at the key matches the value's field
\* (undefined when the key is missing).
C3_KeyedOptional ==
    \A c \in LastCall :
        rootPattern.t = "object" /\ input.t \in {"array", "object"} =>
            /\ ~calls[c].threw
            /\ calls[c].matched =
                  \A i \in 1..Len(rootPattern.fields) :
                     LET k == rootPattern.fields[i].k
                         sub == rootPattern.fields[i].v
                     IN  /\ \/ k \in OwnKeys(input)
                            \/ sub.t = "matcher" /\ sub.matcherType = "optional"
                         /\ matchPattern(sub,
                               IF k \in OwnKeys(input) THEN Get(input, k)
                               ELSE Undefined).matched
            /\ rootPattern = Obj(<<Prop("x", optionalNumber)>>) =>
                  /\ input = Obj(<<>>) => calls[c].matched
                  /\ input = Obj(<<Prop("x", Five)>>) => calls[c].matched
                  /\ input = Obj(<<Prop("x", Str("s"))>>) => ~calls[c].matched
            /\ rootPattern = Obj(<<Prop("x", Undefined)>>) /\ input = Obj(<<>>)
                  => ~calls[c].matched

C3_Witness ==
    /\ rootPattern = Obj(<<Prop("x", optionalNumber)>>)
    /\ input = Obj(<<>>)
    /\ calls # <<>>
    /\ calls[1].matched

\* w holds every property of v with the same value, and no other property
\* that the keyed pattern p mentions
ExtendsOutside(w, v, p) ==
    /\ w.t = "object"
    /\ OwnKeys(v) \subseteq OwnKeys(w)
    /\ \A k \in OwnKeys(v) : Get(w, k) = Get(v, k)
    /\ \A k \in OwnKeys(w) \ OwnKeys(v) : k \notin OwnKeys(p)

\* C4: keys of the value that the keyed pattern does not mention are
\* ignored: matchPattern returns the same boolean and makes the same select
\* calls on a value and on the value extended with such keys.
C4_ExtraKeysIgnored ==
    \A c \in LastCall :
        rootPattern.t = "object" /\ input.t = "object" =>
            \A w \in Objects(ElemValues) :
                ExtendsOutside(w, input, rootPattern) =>
                    matchPattern(rootPattern, w) = calls[c]

C4_Witness ==
    /\ rootPattern.t = "object"
    /\ input.t = "object"
    /\ Len(rootPattern.fields) = 1
    /\ \E w \in Objects(ElemValues) :
          /\ ExtendsOutside(w, input, rootPattern)
          /\ OwnKeys(w) # OwnKeys(input)
    /\ calls # <<>>
    /\ calls[1].matched
    /\ \E e \in 1..Len(calls[1].log) : calls[1].log[e].ev = "select"

\* C5: for a matcher pattern matchPattern invokes match(value) exactly once,
\* returns its matched flag, calls select once per entry of the selections
\* only when matched is true and selections is present, and never descends
\* into the matcher object's own fields.
C5_MatcherDelegation ==
    \A c \in LastCall :
        /\ rootPattern.t = "matcher" =>
              LET r == Match(rootPattern, input)
              IN  /\ ~calls[c].threw
                  /\ calls[c].matched = r.matched
                  /\ calls[c].log # <<>>
                  /\ calls[c].log[1] = MatchEv(<<>>, input)
                  /\ \A e \in 2..Len(calls[c].log) :
                        /\ calls[c].log[e].ev = "select"
                        /\ calls[c].log[e].at = <<>>
                  /\ Len(calls[c].log) - 1 =
                        IF r.matched /\ r.selections.some
                        THEN Len(r.selections.entries) ELSE 0
                  /\ \A e \in 2..Len(calls[c].log) :
                        /\ calls[c].log[e].key = r.selections.entries[e - 1].k
                        /\ calls[c].log[e].val = r.selections.entries[e - 1].v
        /\ \A e, f \in 1..Len(calls[c].log) :
              /\ calls[c].log[e].ev = "match"
              /\ calls[c].log[f].ev = "match"
              /\ calls[c].log[e].at = calls[c].log[f].at
              => e = f

C5_Witness ==
    /\ rootPattern.t = "matcher"
    /\ rootPattern.leaky
    /\ rootPattern.fields # <<>>
    /\ Match(rootPattern, input).selections.some
    /\ ~Match(rootPattern, input).matched
    /\ calls # <<>>
    /\ ~calls[1].matched
    /\ Len(calls[1].log) = 1

\* the child patterns of a composite pattern, as properties in pattern order
Children(p) ==
    IF p.t = "array"
    THEN [i \in 1..Len(p.elems) |-> Prop(IndexKey(i - 1), p.elems[i])]
    ELSE p.fields

ChildIndex(p, k) == CHOOSE i \in 1..Len(Children(p)) : Children(p)[i].k = k

RECURSIVE WalkOrder(_, _, _)
\* the node at path a is the node at path b, or is met before it by the
\* depth-first, left-to-right walk of pattern p
WalkOrder(p, a, b) ==
    IF a = <<>> \/ b = <<>> THEN a = b
    ELSE IF a[1] = b[1]
    THEN WalkOrder(Children(p)[ChildIndex(p, a[1])].v, Tail(a), Tail(b))
    ELSE ChildIndex(p, a[1]) < ChildIndex(p, b[1])

\* an object with the same properties in the opposite property order
ReverseKeys(v) ==
    IF v.t = "object"
    THEN Obj([i \in 1..Len(v.fields) |-> v.fields[Len(v.fields) + 1 - i]])
    ELSE v

\* C6: the events of one matchPattern call follow the depth-first,
\* left-to-right walk of the pattern: what index i of a tuple causes precedes
\* what index j > i causes, a keyed pattern is walked in the pattern's key
\* order, and the order of the keys in the value changes nothing.
C6_DiscoveryOrder ==
    \A c \in LastCall :
        /\ \A e, f \in 1..Len(calls[c].log) :
              e < f => WalkOrder(rootPattern, calls[c].log[e].at, calls[c].log[f].at)
        /\ rootPattern.t = "object" =>
              matchPattern(rootPattern, ReverseKeys(input)) = calls[c]

C6_Witness ==
    /\ rootPattern.t = "object"
    /\ input.t = "object"
    /\ Len(rootPattern.fields) = 2
    /\ Len(input.fields) = 2
    /\ input.fields[1].k = rootPattern.fields[2].k
    /\ calls # <<>>
    /\ \E e, f \in 1..Len(calls[1].log) :
          /\ e < f
          /\ calls[1].log[e].ev = "select"
          /\ calls[1].log[f].ev = "select"
          /\ Len(calls[1].log[e].at) = 2
          /\ calls[1].log[e].at[1] = rootPattern.fields[1].k
          /\ calls[1].log[f].at = <<rootPattern.fields[2].k>>

\* the select calls of a log, as (name, value) pairs
SelectCalls(log) ==
    LET s == SelectSeq(log, LAMBDA e : e.ev = "select")
    IN  [i \in 1..Len(s) |-> <<s[i].key, s[i].val>>]

\* the events that the child under key k caused
Under(log, k) == SelectSeq(log, LAMBDA e : e.at # <<>> /\ e.at[1] = k)

\* the composite pattern p is applied to a value of the right shape
ShapeFits(p, v) ==
    /\ p.t \in {"array", "object"}
    /\ v.t \in {"array", "object"}
    /\ p.t = "array" => v.t = "array" /\ Len(v.elems) = Len(p.elems)

\* the i-th child of p is evaluated on v and matches
ChildMatches(p, v, i) ==
    LET ch == Children(p)[i]
    IN  /\ \/ p.t = "array"
           \/ ch.k \in OwnKeys(v)
           \/ ch.v.t = "matcher" /\ ch.v.matcherType = "optional"
        /\ matchPattern(ch.v, Get(v, ch.k)).matched

\* C7: select calls are not rolled back: when earlier sub-patterns of a
\* tuple or keyed pattern match and a later one fails, matchPattern returns
\* false and the select calls of the earlier sub-patterns are all in the log
\* of the failing call.
C7_NoRollback ==
    \A c \in LastCall :
        ShapeFits(rootPattern, input) =>
            \A i \in 1..Len(Children(rootPattern)) :
                /\ \A j \in 1..(i - 1) : ChildMatches(rootPattern, input, j)
                /\ ~ChildMatches(rootPattern, input, i)
                =>
                /\ ~calls[c].matched
                /\ \A j \in 1..(i - 1) :
                      LET ch == Children(rootPattern)[j]
                      IN  SelectCalls(Under(calls[c].log, ch.k)) =
                          SelectCalls(matchPattern(ch.v, Get(input, ch.k)).log)

C7_Witness ==
    /\ ShapeFits(rootPattern, input)
    /\ Len(Children(rootPattern)) = 2
    /\ ChildMatches(rootPattern, input, 1)
    /\ ~ChildMatches(rootPattern, input, 2)
    /\ calls # <<>>
    /\ ~calls[1].matched
    /\ SelectCalls(calls[1].log) # <<>>

\* C8: matchPattern returns a boolean and never throws, for every pattern
\* built from literals, tuples, records and matchers and every value.
C8_NeverThrows ==
    \A c \in LastCall :
        /\ ~calls[c].threw
        /\ calls[c].matched \in BOOLEAN

C8_Witness ==
    /\ rootPattern.t = "object"
    /\ rootPattern.fields # <<>>
    /\ input = Null
    /\ calls # <<>>
    /\ ~calls[1].matched
    /\ ~calls[1].threw

RECURSIVE Flatten(_)
Flatten(ss) == IF ss = <<>> THEN <<>> ELSE Head(ss) \o Flatten(Tail(ss))

\* C10: getSelectionKeys returns the empty sequence for a literal, the
\* matcher's own getSelectionKeys() result (empty when it has none) for a
\* matcher, and for a tuple or record the concatenation, in order and with
\* duplicates kept, of the results of its sub-patterns; it invokes no match
\* and calls no select.
C10_SelectionKeys ==
    selectionKeys.called =>
        /\ selectionKeys.keys =
              CASE IsLiteral(rootPattern) -> <<>>
                [] rootPattern.t = "matcher" ->
                      IF rootPattern.gsk.some THEN rootPattern.gsk.names ELSE <<>>
                [] OTHER ->
                      Flatten([i \in 1..Len(Children(rootPattern)) |->
                                 getSelectionKeys(Children(rootPattern)[i].v).keys])
        /\ \A e \in 1..Len(selectionKeys.log) :
              selectionKeys.log[e].ev \notin {"match", "select"}

C10_Witness ==
    /\ rootPattern.t = "array"
    /\ selectionKeys.called
    /\ selectionKeys.keys = <<"a", "a">>

\* C12: an empty record pattern matches every composite value, arrays
\* included, and no other value; a keyed pattern applied to an array is
\* matched by key (length and the indices are its keys), not rejected; an
\* empty tuple pattern matches the empty array only.
C12_EmptyAndArrayKeyed ==
    \A c \in LastCall :
        /\ rootPattern = Obj(<<>>) =>
              /\ calls[c].matched = (input.t \in {"array", "object"})
              /\ input.t \in {"undefined", "null", "number", "string"} =>
                    ~calls[c].matched
        /\ rootPattern.t = "object" /\ input.t = "array" =>
              calls[c].matched =
                 \A i \in 1..Len(rootPattern.fields) :
                    LET k == rootPattern.fields[i].k
                        sub == rootPattern.fields[i].v
                        present == \/ k = "length"
                                   \/ \E n \in 1..Len(input.elems) : k = IndexKey(n - 1)
                        field == IF k = "length"
                                 THEN Num(FALSE, FALSE, Len(input.elems))
                                 ELSE IF present
                                 THEN input.elems[CHOOSE n \in 1..Len(input.elems) :
                                                      k = IndexKey(n - 1)]
                                 ELSE Undefined
                    IN  /\ present \/ (sub.t = "matcher" /\ sub.matcherType = "optional")
                        /\ matchPattern(sub, field).matched
        /\ rootPattern = Arr(<<>>) => calls[c].matched = (input = Arr(<<>>))

C12_Witness ==
    /\ rootPattern = Obj(<<Prop("length", numberB)>>)
    /\ input.t = "array"
    /\ Len(input.elems) = 2
    /\ calls # <<>>
    /\ calls[1].matched
    /\ SelectCalls(calls[1].log) = << <<"b", Num(FALSE, FALSE, 2)>> >>

\* C13: evaluation of a tuple or keyed pattern stops at the first failing
\* sub-pattern: a sub-pattern causes a match or select call only if every
\* sub-pattern before it matched and, in a keyed pattern, its key exists in
\* the value or it is an optional matcher.
C13_StopsAtFirstFailure ==
    \A c \in LastCall :
        ShapeFits(rootPattern, input) =>
            \A i \in 1..Len(Children(rootPattern)) :
                LET ch == Children(rootPattern)[i]
                IN  Under(calls[c].log, ch.k) # <<>> =>
                        /\ \A j \in 1..(i - 1) : ChildMatches(rootPattern, input, j)
                        /\ \/ rootPattern.t = "array"
                           \/ ch.k \in OwnKeys(input)
                           \/ ch.v.t = "matcher" /\ ch.v.matcherType = "optional"

C13_Witness ==
    /\ rootPattern.t = "array"
    /\ ShapeFits(rootPattern, input)
    /\ Len(rootPattern.elems) = 2
    /\ rootPattern.elems[2].t = "matcher"
    /\ ~ChildMatches(rootPattern, input, 1)
    /\ calls # <<>>
    /\ ~calls[1].matched
    /\ Under(calls[1].log, IndexKey(0)) # <<>>
    /\ Under(calls[1].log, IndexKey(1)) = <<>>

RECURSIVE NodeCount(_)
\* the number of nodes of a pattern: a literal or a matcher is one node
NodeCount(p) ==
    IF p.t \in {"array", "object"}
    THEN LET n[i \in 0..Len(Children(p))] ==
                 IF i = 0 THEN 1 ELSE n[i - 1] + NodeCount(Children(p)[i].v)
         IN  n[Len(Children(p))]
    ELSE 1

\* every invocation in progress is on a child of the pattern of the
\* invocation that made it
Descends ==
    \A n \in 2..Len(frames) :
        \E i \in 1..Len(Children(frames[n - 1].pattern)) :
            frames[n].pattern = Children(frames[n - 1].pattern)[i].v

\* the followed call returns what matchPattern returns, with the same events
WalkAgrees ==
    status = "done" /\ input \in Values =>
        /\ (last = "true") = matchPattern(rootPattern, input).matched
        /\ walkLog = matchPattern(rootPattern, input).log

\* C11: matchPattern terminates on every pattern of the universe and every
\* value, cyclic values included: each recursive invocation is on a strict
\* sub-pattern, and the invocations number at most the nodes of the pattern.
C11_Terminates ==
    /\ [](invocations <= NodeCount(rootPattern))
    /\ []Descends
    /\ <>(status = "done")

C11_Witness ==
    /\ input \in CyclicValues
    /\ status = "done"
    /\ last = "true"
    /\ Len(walkLog) > 0
    /\ invocations = NodeCount(rootPattern)
    /\ invocations >= 3

====
